---- MODULE Spec2Model ----
(***************************************************************************)
(* SimpleVector<Type> over ArrayPtr<Type>, for Type = int.                 *)
(*                                                                         *)
(* The repository holds two drafts of simple_vector.h (src/unnamed/        *)
(* part_000 and src/unnamed/part_001) over one array_ptr.h.  A build       *)
(* includes one of them; `variant` says which.  Where the drafts differ    *)
(* (move constructor, copy-assignment self test, PopBack, assertions)      *)
(* there is one operator per draft, suffixed _000 / _001.                  *)
(*                                                                         *)
(* Iterators are modelled by their index, pos - begin().                   *)
(***************************************************************************)
EXTENDS Integers, Sequences, FiniteSets, TLC

VARIABLES
    variant,    \* which draft of simple_vector.h the build includes
    vecs,       \* the SimpleVector objects of the client: name -> fields
    heap,       \* the free store: blocks by address, and whether a block was deleted twice
    last,       \* the last call the client made: operation, arguments, result
    scn,        \* how far the client is into the scenario of spec section 8
    pushed,     \* the values pushed since SimpleVector(), while PushBack is all the client called
    ptrs        \* the ArrayPtr objects a client uses on their own: name -> raw_ptr_

vars == <<variant, vecs, heap, last, scn, pushed, ptrs>>

---------------------------------------------------------------------------
(* Bounds *)

MaxCap == 2         \* two-object runs: no call may raise a capacity above this
NumAddr == 3        \* heap addresses 1..NumAddr
OneMaxSize == 3     \* single-object runs: no call may raise size above this
OneMaxCap == 4      \* single-object runs: no call may raise capacity above this
ScnMaxSize == 5     \* scenario runs: no call may raise size above this
ScnMaxCap == 8      \* scenario runs: no call may raise capacity above this

Objs == {"a", "b"}
Addr == 1..NumAddr
Values == {0, 1}    \* the element values the client passes

---------------------------------------------------------------------------
(* ArrayPtr<Type> and the free store *)

NullPtr == 0        \* raw_ptr_ = nullptr
Default == 0        \* Type{} : a value-initialised int

Max(x, y) == IF x >= y THEN x ELSE y

FreeBlock == [st |-> "free", cells |-> [i \in {} |-> Default]]

EmptyHeap == [mem |-> [p \in Addr |-> FreeBlock], doubleFree |-> FALSE]

\* the address operator new[] hands out: the lowest one not in use
NewAddr(h) ==
    CHOOSE p \in Addr : h.mem[p].st = "free" /\ \A q \in Addr : q < p => h.mem[q].st # "free"

CanAlloc(h) == \E p \in Addr : h.mem[p].st = "free"

\* explicit ArrayPtr(size_t size): new Type[size]{} when size > 0
ArrayPtrNew(h, size) ==
    IF size > 0
    THEN LET tmp_ptr == NewAddr(h)
         IN  [raw_ptr_ |-> tmp_ptr,
              h |-> [h EXCEPT !.mem[tmp_ptr] =
                        [st |-> "live", cells |-> [i \in 0..(size - 1) |-> Default]]]]
    ELSE [raw_ptr_ |-> NullPtr, h |-> h]

\* ~ArrayPtr(): delete[] raw_ptr_
ArrayPtrDelete(h, raw_ptr_) ==
    IF raw_ptr_ = NullPtr THEN h
    ELSE IF h.mem[raw_ptr_].st = "live"
         THEN [h EXCEPT !.mem[raw_ptr_].st = "freed"]
         ELSE [h EXCEPT !.doubleFree = TRUE]

\* ArrayPtr(ArrayPtr &&other): raw_ptr_ = std::exchange(other.raw_ptr_, nullptr)
ArrayPtrMoveCtor(other) == [this |-> other, other |-> NullPtr]

\* void swap(ArrayPtr &other)
ArrayPtrSwap(this, other) == [this |-> other, other |-> this]

\* ArrayPtr &operator=(ArrayPtr &&other)
ArrayPtrMoveAssign(this, other) ==
    IF this = other THEN [this |-> this, other |-> other]
    ELSE ArrayPtrSwap(this, other)

\* operator[] : *(raw_ptr_ + index)
At(h, raw_ptr_, index) == h.mem[raw_ptr_].cells[index]

Put(h, raw_ptr_, index, value) == [h EXCEPT !.mem[raw_ptr_].cells[index] = value]

\* std::move / std::copy (first, last, d_first): front to back
RECURSIVE StdMove(_, _, _, _, _, _)
StdMove(h, src, first, last_, dst, d_first) ==
    IF first >= last_ THEN h
    ELSE StdMove(Put(h, dst, d_first, At(h, src, first)), src, first + 1, last_, dst, d_first + 1)

\* std::copy_backward / std::move_backward (first, last, d_last): back to front
RECURSIVE StdCopyBackward(_, _, _, _, _)
StdCopyBackward(h, buf, first, last_, d_last) ==
    IF first >= last_ THEN h
    ELSE StdCopyBackward(Put(h, buf, d_last - 1, At(h, buf, last_ - 1)), buf, first, last_ - 1, d_last - 1)

\* std::fill(first, last, value), and the loop items_[i] = Type{}
RECURSIVE StdFill(_, _, _, _, _)
StdFill(h, buf, first, last_, value) ==
    IF first >= last_ THEN h
    ELSE StdFill(Put(h, buf, first, value), buf, first + 1, last_, value)

\* storage given back to the allocator and referenced by no object is forgotten
Settle(h, vs) ==
    [h EXCEPT !.mem = [p \in Addr |->
        IF h.mem[p].st = "freed" /\ \A o \in Objs : vs[o].items_ # p
        THEN FreeBlock ELSE h.mem[p]]]

\* the bytes of a block that was freed while an object still points to it are
\* indeterminate: g is what a later read finds there
Stale(h, g) ==
    [h EXCEPT !.mem = [p \in Addr |->
        IF h.mem[p].st = "freed"
        THEN [h.mem[p] EXCEPT !.cells = [i \in DOMAIN h.mem[p].cells |-> g[i]]]
        ELSE h.mem[p]]]

---------------------------------------------------------------------------
(* SimpleVector<Type>: the member functions, on one object v and the heap h. *)
(* ok says whether the new[] the call performs (if any) succeeds.            *)
(* A result is [v, h, ret, outcome].                                         *)

NoVec == [alive |-> FALSE, items_ |-> NullPtr, size_ |-> 0, capacity_ |-> 0]

\* SimpleVector() noexcept = default
NewVec == [alive |-> TRUE, items_ |-> NullPtr, size_ |-> 0, capacity_ |-> 0]

Ok(v, h) == [v |-> v, h |-> h, ret |-> 0, outcome |-> "ok"]
BadAlloc(v, h) == [v |-> v, h |-> h, ret |-> 0, outcome |-> "bad_alloc"]
Abort(v, h) == [v |-> v, h |-> h, ret |-> 0, outcome |-> "abort"]

\* the call has undefined behaviour (an iterator outside the buffer is formed or
\* dereferenced): the run ends here and nothing is said about the object
Undefined(v, h) == [v |-> v, h |-> h, ret |-> 0, outcome |-> "ub"]

\* the elements [begin(), end()) as a sequence
Elems(v, h) == [i \in 1..v.size_ |-> At(h, v.items_, i - 1)]

\* size_t new_capacity = std::max(new_size, (capacity_ == 0 ? 1 : capacity_ * 2))
NewCapacity(capacity_, new_size) ==
    Max(new_size, IF capacity_ = 0 THEN 1 ELSE capacity_ * 2)

\* a Resize that forgets to default the slots it exposes within the capacity
ResizeNoFill(v, h, new_size, ok) ==
    IF new_size > v.capacity_
    THEN IF ~ok THEN BadAlloc(v, h)
         ELSE LET temp == ArrayPtrNew(h, NewCapacity(v.capacity_, new_size))
                  h1 == StdMove(temp.h, v.items_, 0, v.size_, temp.raw_ptr_, 0)
              IN  Ok([v EXCEPT !.items_ = temp.raw_ptr_,
                               !.capacity_ = NewCapacity(v.capacity_, new_size),
                               !.size_ = new_size],
                     ArrayPtrDelete(h1, v.items_))
    ELSE Ok([v EXCEPT !.size_ = new_size], h)

\* a Resize that sets size_ before it allocates
ResizeSizeFirst(v, h, new_size, ok) ==
    IF new_size > v.capacity_
    THEN IF ~ok THEN BadAlloc([v EXCEPT !.size_ = new_size], h)
         ELSE LET temp == ArrayPtrNew(h, NewCapacity(v.capacity_, new_size))
                  h1 == StdMove(temp.h, v.items_, 0, v.size_, temp.raw_ptr_, 0)
              IN  Ok([v EXCEPT !.items_ = temp.raw_ptr_,
                               !.capacity_ = NewCapacity(v.capacity_, new_size),
                               !.size_ = new_size],
                     ArrayPtrDelete(h1, v.items_))
    ELSE IF new_size > v.size_
         THEN Ok([v EXCEPT !.size_ = new_size], StdFill(h, v.items_, v.size_, new_size, Default))
         ELSE Ok([v EXCEPT !.size_ = new_size], h)

\* a Resize that allocates exactly new_size instead of applying the growth policy
ResizeExact(v, h, new_size, ok) ==
    IF new_size > v.capacity_
    THEN IF ~ok THEN BadAlloc(v, h)
         ELSE LET temp == ArrayPtrNew(h, new_size)
                  h1 == StdMove(temp.h, v.items_, 0, v.size_, temp.raw_ptr_, 0)
              IN  Ok([v EXCEPT !.items_ = temp.raw_ptr_,
                               !.capacity_ = new_size,
                               !.size_ = new_size],
                     ArrayPtrDelete(h1, v.items_))
    ELSE IF new_size > v.size_
         THEN Ok([v EXCEPT !.size_ = new_size], StdFill(h, v.items_, v.size_, new_size, Default))
         ELSE Ok([v EXCEPT !.size_ = new_size], h)

\* void Resize(size_t new_size)
Resize(v, h, new_size, ok) ==
    IF new_size > v.capacity_
    THEN LET new_capacity == NewCapacity(v.capacity_, new_size)
         IN  IF ~ok THEN BadAlloc(v, h)                 \* ArrayPtr<Type> temp(new_capacity) throws
             ELSE LET temp == ArrayPtrNew(h, new_capacity)
                      \* std::move(begin(), end(), temp.Get())
                      h1 == StdMove(temp.h, v.items_, 0, v.size_, temp.raw_ptr_, 0)
                      \* items_.swap(temp)
                      sw == ArrayPtrSwap(v.items_, temp.raw_ptr_)
                      \* ~temp at the end of the block
                      h2 == ArrayPtrDelete(h1, sw.other)
                  IN  Ok([v EXCEPT !.items_ = sw.this,
                                   !.capacity_ = new_capacity,
                                   !.size_ = new_size], h2)
    ELSE IF new_size > v.size_
         THEN \* for (i = size_; i < new_size; ++i) items_[i] = Type{}
              Ok([v EXCEPT !.size_ = new_size], StdFill(h, v.items_, v.size_, new_size, Default))
         ELSE Ok([v EXCEPT !.size_ = new_size], h)

\* void Reserve(size_t new_capacity)
Reserve(v, h, new_capacity, ok) ==
    IF v.capacity_ < new_capacity
    THEN IF ~ok THEN BadAlloc(v, h)
         ELSE LET temp == ArrayPtrNew(h, new_capacity)
                  h1 == StdMove(temp.h, v.items_, 0, v.size_, temp.raw_ptr_, 0)
                  sw == ArrayPtrSwap(v.items_, temp.raw_ptr_)
                  h2 == ArrayPtrDelete(h1, sw.other)
              IN  Ok([v EXCEPT !.items_ = sw.this, !.capacity_ = new_capacity], h2)
    ELSE Ok(v, h)

\* a ResizeCurrentVector that counts the new element without making room for it
ResizeCurrentVectorNoGrow(v, h, ok) ==
    Ok([v EXCEPT !.size_ = v.size_ + 1], h)

\* void ResizeCurrentVector()
ResizeCurrentVector(v, h, ok) ==
    IF v.capacity_ <= v.size_
    THEN Resize(v, h, v.size_ + 1, ok)
    ELSE Ok([v EXCEPT !.size_ = v.size_ + 1], h)

\* void PushBack(const Type &item), void PushBack(Type &&item)
PushBack(v, h, item, ok) ==
    LET r == ResizeCurrentVector(v, h, ok)
    IN  IF r.outcome # "ok" THEN r
        ELSE Ok(r.v, Put(r.h, r.v.items_, r.v.size_ - 1, item))

\* void Clear() noexcept
Clear(v, h) == Ok([v EXCEPT !.size_ = 0], h)

\* an Insert that takes the index after the shift's destination, off by one
InsertOffByOne(v, h, pos, value, ok) ==
    IF pos = v.size_
    THEN LET r == PushBack(v, h, value, ok)
         IN  IF r.outcome # "ok" THEN r ELSE [r EXCEPT !.ret = r.v.size_ - 1]
    ELSE LET r == ResizeCurrentVector(v, h, ok)
         IN  IF r.outcome # "ok" THEN r
             ELSE LET h1 == StdCopyBackward(r.h, r.v.items_, pos, r.v.size_ - 1, r.v.size_)
                  IN  [v |-> r.v, h |-> Put(h1, r.v.items_, pos + 1, value),
                       ret |-> pos + 1, outcome |-> "ok"]

\* Iterator Insert(ConstIterator pos, const Type &value)
Insert(v, h, pos, value, ok) ==
    IF pos < 0 \/ pos > v.size_ THEN Undefined(v, h)    \* copy_backward over an inverted range
    ELSE IF pos = v.size_                               \* pos == cend()
    THEN LET r == PushBack(v, h, value, ok)
         IN  IF r.outcome # "ok" THEN r ELSE [r EXCEPT !.ret = r.v.size_ - 1]
    ELSE LET curr_index == pos                          \* pos - items_.Get()
             r == ResizeCurrentVector(v, h, ok)
         IN  IF r.outcome # "ok" THEN r
             ELSE LET \* std::copy_backward(&items_[curr_index], end() - 1, end())
                      h1 == StdCopyBackward(r.h, r.v.items_, curr_index, r.v.size_ - 1, r.v.size_)
                      \* it = d_last - (last - first); --it
                      it == (r.v.size_ - ((r.v.size_ - 1) - curr_index)) - 1
                  IN  [v |-> r.v, h |-> Put(h1, r.v.items_, it, value),
                       ret |-> it, outcome |-> "ok"]

\* Iterator Insert(ConstIterator pos, Type &&value), part_000: asserts first
InsertRv_000(v, h, pos, value, ok) ==
    IF ~(pos <= v.size_) \/ ~(pos >= 0) THEN Abort(v, h)
    ELSE Insert(v, h, pos, value, ok)

\* Iterator Insert(ConstIterator pos, Type &&value), part_001: no assertion
InsertRv_001(v, h, pos, value, ok) == Insert(v, h, pos, value, ok)

\* an Erase that shifts one element too few
EraseShort(v, h, pos) ==
    LET h1 == IF pos < v.size_ - 1
              THEN StdMove(h, v.items_, pos + 1, v.size_ - 1, v.items_, pos)
              ELSE h
    IN  [v |-> [v EXCEPT !.size_ = v.size_ - 1], h |-> h1, ret |-> pos, outcome |-> "ok"]

\* Iterator Erase(ConstIterator pos), part_001: no assertion
Erase_001(v, h, pos) ==
    IF pos < 0 \/ v.size_ = 0 THEN Undefined(v, h)      \* &items_[curr_index], end() - 1 before the buffer
    ELSE
    LET curr_index == pos                               \* pos - begin()
        h1 == IF pos < v.size_ - 1                      \* pos < (end() - 1)
              THEN StdMove(h, v.items_, curr_index + 1, v.size_, v.items_, curr_index)
              ELSE h
    IN  [v |-> [v EXCEPT !.size_ = v.size_ - 1], h |-> h1, ret |-> curr_index, outcome |-> "ok"]

\* Iterator Erase(ConstIterator pos), part_000: assert(pos <= end()); assert(pos >= begin())
Erase_000(v, h, pos) ==
    IF ~(pos <= v.size_) \/ ~(pos >= 0) THEN Abort(v, h)
    ELSE Erase_001(v, h, pos)

\* void PopBack() noexcept, part_000: assert(!IsEmpty())
PopBack_000(v, h) ==
    IF v.size_ = 0 THEN Abort(v, h)
    ELSE Ok([v EXCEPT !.size_ = v.size_ - 1], h)

\* void PopBack() noexcept, part_001: if (!IsEmpty()) --size_
PopBack_001(v, h) ==
    IF v.size_ # 0 THEN Ok([v EXCEPT !.size_ = v.size_ - 1], h) ELSE Ok(v, h)

---------------------------------------------------------------------------
(* SimpleVector<Type>: construction, copy, move, swap, destruction *)

\* explicit SimpleVector(size_t size)
CtorSize(h, size, ok) ==
    IF size > 0 /\ ~ok THEN BadAlloc(NoVec, h)
    ELSE LET items == ArrayPtrNew(h, size)
         IN  Ok([alive |-> TRUE, items_ |-> items.raw_ptr_, size_ |-> size, capacity_ |-> size],
                items.h)

\* SimpleVector(size_t size, const Type &value)
CtorFill(h, size, value, ok) ==
    LET r == CtorSize(h, size, ok)
    IN  IF r.outcome # "ok" \/ size = 0 THEN r
        ELSE Ok(r.v, StdFill(r.h, r.v.items_, 0, r.v.size_, value))

\* std::copy(init.begin(), init.end(), items_.Get())
RECURSIVE CopyInit(_, _, _, _)
CopyInit(h, init, k, dst) ==
    IF k > Len(init) THEN h
    ELSE CopyInit(Put(h, dst, k - 1, init[k]), init, k + 1, dst)

\* SimpleVector(std::initializer_list<Type> init)
CtorList(h, init, ok) ==
    LET r == CtorSize(h, Len(init), ok)
    IN  IF r.outcome # "ok" THEN r
        ELSE Ok(r.v, CopyInit(r.h, init, 1, r.v.items_))

\* SimpleVector(ReserveProxyObj rhs): Reserve(rhs.GetCapacity())
CtorReserve(h, capacity_to_reserve, ok) ==
    LET r == Reserve(NewVec, h, capacity_to_reserve, ok)
    IN  IF r.outcome # "ok" THEN BadAlloc(NoVec, h) ELSE r

\* SimpleVector(const SimpleVector &other)
CopyCtor(other, h, ok) ==
    IF other.capacity_ > 0 /\ ~ok THEN BadAlloc(NoVec, h)
    ELSE LET items == ArrayPtrNew(h, other.capacity_)
         IN  Ok([alive |-> TRUE, items_ |-> items.raw_ptr_,
                 size_ |-> other.size_, capacity_ |-> other.capacity_],
                \* std::copy(other.begin(), other.end(), items_.Get())
                StdMove(items.h, other.items_, 0, other.size_, items.raw_ptr_, 0))

\* bool operator==(lhs, rhs): std::equal(lhs.begin(), lhs.end(), rhs.begin(), rhs.end())
VecEqual(lhs, rhs, h) ==
    /\ lhs.size_ = rhs.size_
    /\ \A i \in 0..(lhs.size_ - 1) : At(h, lhs.items_, i) = At(h, rhs.items_, i)

\* the body of both copy assignments after the self test: temp{rhs}; swap(temp); ~temp
CopyAndSwap(this, rhs, h, ok) ==
    LET temp == CopyCtor(rhs, h, ok)
    IN  IF temp.outcome # "ok" THEN BadAlloc(this, h)
        ELSE Ok(temp.v, ArrayPtrDelete(temp.h, this.items_))

\* SimpleVector &operator=(const SimpleVector &rhs), part_000: if (*this == rhs) return
CopyAssign_000(this, rhs, same, h, ok) ==
    IF VecEqual(this, rhs, h) THEN Ok(this, h)
    ELSE CopyAndSwap(this, rhs, h, ok)

\* SimpleVector &operator=(const SimpleVector &rhs), part_001: if (&items_ == &rhs.items_) return
CopyAssign_001(this, rhs, same, h, ok) ==
    IF same THEN Ok(this, h)
    ELSE CopyAndSwap(this, rhs, h, ok)

\* std::swap(a, b) on ArrayPtr: tmp(std::move(a)); a = std::move(b); b = std::move(tmp); ~tmp
StdSwapArrayPtr(a, b, h) ==
    LET tmp == ArrayPtrMoveCtor(a)
        a1 == ArrayPtrMoveAssign(tmp.other, b)
        b1 == ArrayPtrMoveAssign(a1.other, tmp.this)
    IN  [a |-> a1.this, b |-> b1.this, h |-> ArrayPtrDelete(h, b1.other)]

\* SimpleVector(SimpleVector &&other), part_000: three std::swap
\* result: [v |-> *this, other |-> other, h |-> heap]
MoveCtor_000(other, h) ==
    LET sw == StdSwapArrayPtr(NewVec.items_, other.items_, h)
    IN  [v |-> [alive |-> TRUE, items_ |-> sw.a,
                size_ |-> other.size_, capacity_ |-> other.capacity_],
         other |-> [other EXCEPT !.items_ = sw.b,
                                 !.size_ = NewVec.size_, !.capacity_ = NewVec.capacity_],
         h |-> sw.h]

\* SimpleVector(SimpleVector &&other), part_001: three std::exchange
\*   other.items_ = std::exchange(items_, other.items_);
\* std::exchange(obj, new_value): old(std::move(obj)); obj = new_value; return old
\* new_value is the lvalue other.items_, so obj = new_value is ArrayPtr's defaulted
\* copy assignment; the returned temporary is move-assigned to other.items_ and then
\* destroyed
MoveCtor_001(other, h) ==
    LET old_value == ArrayPtrMoveCtor(NewVec.items_)
        obj == other.items_                           \* ArrayPtr &operator=(const ArrayPtr &) = default
        asg == ArrayPtrMoveAssign(other.items_, old_value.this)
    IN  [v |-> [alive |-> TRUE, items_ |-> obj,
                size_ |-> other.size_, capacity_ |-> other.capacity_],
         other |-> [other EXCEPT !.items_ = asg.this,
                                 !.size_ = NewVec.size_, !.capacity_ = NewVec.capacity_],
         h |-> ArrayPtrDelete(h, asg.other)]          \* ~ArrayPtr of the temporary

MoveCtor(other, h) ==
    IF variant = "part_000" THEN MoveCtor_000(other, h) ELSE MoveCtor_001(other, h)

\* SimpleVector &operator=(SimpleVector &&rhs): temp{std::move(rhs)}; swap(temp); ~temp
MoveAssign(this, rhs, same, h) ==
    IF same THEN [v |-> this, other |-> rhs, h |-> h]
    ELSE LET temp == MoveCtor(rhs, h)
         IN  [v |-> temp.v, other |-> temp.other, h |-> ArrayPtrDelete(temp.h, this.items_)]

\* void swap(SimpleVector &other) noexcept
Swap(this, other) ==
    LET sw == ArrayPtrSwap(this.items_, other.items_)
    IN  [v |-> [this EXCEPT !.items_ = sw.this,
                            !.size_ = other.size_, !.capacity_ = other.capacity_],
         other |-> [other EXCEPT !.items_ = sw.other,
                                 !.size_ = this.size_, !.capacity_ = this.capacity_]]

\* ~SimpleVector(): ~ArrayPtr on items_
Dtor(v, h) == Ok(NoVec, ArrayPtrDelete(h, v.items_))

PopBack(v, h) == IF variant = "part_000" THEN PopBack_000(v, h) ELSE PopBack_001(v, h)

Erase(v, h, pos) == IF variant = "part_000" THEN Erase_000(v, h, pos) ELSE Erase_001(v, h, pos)

InsertRv(v, h, pos, value, ok) ==
    IF variant = "part_000" THEN InsertRv_000(v, h, pos, value, ok)
    ELSE InsertRv_001(v, h, pos, value, ok)

CopyAssign(this, rhs, same, h, ok) ==
    IF variant = "part_000" THEN CopyAssign_000(this, rhs, same, h, ok)
    ELSE CopyAssign_001(this, rhs, same, h, ok)

---------------------------------------------------------------------------
(* The client: calls on the objects.  Each call takes the run's profile lim:   *)
(* lim.cap and lim.size keep the run finite (no call may raise a capacity or   *)
(* a size above them), lim.log says whether the client keeps the arguments and *)
(* results of the calls that return.                                           *)

Profile(cap, size, log) == [cap |-> cap, size |-> size, log |-> log]

\* cap is GetCapacity() of the object before the call
Call(op, obj, src, pos, value, n, cap, ret, outcome) ==
    [op |-> op, obj |-> obj, src |-> src, pos |-> pos, value |-> value, n |-> n,
     cap |-> cap, ret |-> ret, outcome |-> outcome]

NoCall == Call("-", "-", "-", 0, 0, 0, 0, 0, "ok")

\* what the client keeps of a call: the arguments and the result when it returned and
\* the client logs, the operation and the way it ended when it did not return
Log(lim, op, obj, src, pos, value, n, cap, ret, outcome) ==
    IF outcome # "ok" THEN Call(op, obj, src, 0, 0, 0, 0, 0, outcome)
    ELSE IF lim.log THEN Call(op, obj, src, pos, value, n, cap, ret, outcome)
    ELSE NoCall

\* abort() and undefined behaviour end the run
Running == last.outcome \notin {"abort", "ub"}

\* section 8 of the spec, on object "a": empty, PushBack(1), PushBack(2), PushBack(3),
\* Resize(2), Resize(5).  scn counts the calls of it made so far, -1 once off it.
ScnStep(lim, obj, src, op, value, n, outcome) ==
    IF ~lim.log \/ (obj # "a" /\ src # "a") THEN scn
    ELSE IF op = "SimpleVector()" THEN 0
    ELSE IF outcome # "ok" THEN -1
    ELSE IF scn = 0 /\ op = "PushBack" /\ value = 1 THEN 1
    ELSE IF scn = 1 /\ op = "PushBack" /\ value = 2 THEN 2
    ELSE IF scn = 2 /\ op = "PushBack" /\ value = 3 THEN 3
    ELSE IF scn = 3 /\ op = "Resize" /\ n = 2 THEN 4
    ELSE IF scn = 4 /\ op = "Resize" /\ n = 5 THEN 5
    ELSE -1

NoPushes == [on |-> FALSE, items |-> << >>]

\* a run of PushBack calls on a default-constructed "a": the values pushed, in order
PushedStep(lim, obj, op, item, outcome) ==
    IF ~lim.log THEN pushed
    ELSE IF obj = "a" /\ op = "SimpleVector()" THEN [on |-> TRUE, items |-> << >>]
    ELSE IF obj = "a" /\ op = "PushBack" /\ outcome = "ok" /\ pushed.on
         THEN [pushed EXCEPT !.items = Append(pushed.items, item)]
    ELSE NoPushes

\* The value of an address means nothing to the program.  After each call the blocks
\* are renumbered: the block "a" points to comes first, then the one "b" points to,
\* then the others in their order.
Canon(vs, h) ==
    LET pa == vs["a"].items_
        pb == vs["b"].items_
        na == IF pa = NullPtr THEN NullPtr ELSE 1
        nb == IF pb = NullPtr THEN NullPtr ELSE IF pb = pa THEN na ELSE na + 1
        order == (IF pa = NullPtr THEN << >> ELSE <<pa>>)
                 \o (IF pb = NullPtr \/ pb = pa THEN << >> ELSE <<pb>>)
                 \o SelectSeq([p \in Addr |-> p], LAMBDA p : p # pa /\ p # pb)
    IN  IF pa = na /\ pb = nb THEN [vs |-> vs, h |-> h]
        ELSE [vs |-> [vs EXCEPT !["a"].items_ = na, !["b"].items_ = nb],
              h  |-> [h EXCEPT !.mem = [q \in Addr |-> h.mem[order[q]]]]]

\* the state after a call that leaves the objects nv and the heap h
Leaves(nv, h) ==
    LET c == Canon(nv, Settle(h, nv))
    IN  vecs' = c.vs /\ heap' = c.h

\* a call on object o with result r = [v, h, ret, outcome]
Commit(lim, o, r, op, pos, value, n) ==
    /\ Leaves([vecs EXCEPT ![o] = r.v], r.h)
    /\ last' = Log(lim, op, o, "-", pos, value, n, vecs[o].capacity_, r.ret, r.outcome)
    /\ scn' = ScnStep(lim, o, "-", op, value, n, r.outcome)
    /\ pushed' = PushedStep(lim, o, op, value, r.outcome)
    /\ UNCHANGED <<variant, ptrs>>

\* a call on object d with argument object s and result r = [v, other, h, outcome]
Commit2(lim, d, s, r, op) ==
    /\ Leaves(IF d = s THEN [vecs EXCEPT ![d] = r.v]
              ELSE [vecs EXCEPT ![d] = r.v, ![s] = r.other], r.h)
    /\ last' = Log(lim, op, d, s, 0, 0, 0, vecs[d].capacity_, 0, r.outcome)
    /\ scn' = ScnStep(lim, d, s, op, 0, 0, r.outcome)
    /\ pushed' = PushedStep(lim, d, op, 0, r.outcome)
    /\ UNCHANGED <<variant, ptrs>>

Constructible(o) == Running /\ ~vecs[o].alive /\ CanAlloc(heap)
Callable(o) == Running /\ vecs[o].alive /\ CanAlloc(heap)

DoCtor(lim, o) ==
    /\ Constructible(o)
    /\ Commit(lim, o, Ok(NewVec, heap), "SimpleVector()", 0, 0, 0)

DoCtorSize(lim, o, size, ok) ==
    /\ Constructible(o)
    /\ ok \/ size > 0
    /\ Commit(lim, o, CtorSize(heap, size, ok), "SimpleVector(size)", 0, 0, size)

DoCtorFill(lim, o, size, value, ok) ==
    /\ Constructible(o)
    /\ ok \/ size > 0
    /\ Commit(lim, o, CtorFill(heap, size, value, ok), "SimpleVector(size,value)", 0, value, size)

DoCtorList(lim, o, init, ok) ==
    /\ Constructible(o)
    /\ ok \/ Len(init) > 0
    /\ Commit(lim, o, CtorList(heap, init, ok), "SimpleVector(init)", 0, 0, Len(init))

DoCtorReserve(lim, o, capacity_to_reserve, ok) ==
    /\ Constructible(o)
    /\ ok \/ capacity_to_reserve > 0
    /\ Commit(lim, o, CtorReserve(heap, capacity_to_reserve, ok), "SimpleVector(Reserve)", 0, 0,
              capacity_to_reserve)

DoCopyCtor(lim, d, s, ok) ==
    /\ Constructible(d) /\ vecs[s].alive
    /\ ok \/ vecs[s].capacity_ > 0
    /\ LET r == CopyCtor(vecs[s], heap, ok)
       IN  Commit2(lim, d, s, [v |-> r.v, other |-> vecs[s], h |-> r.h, outcome |-> r.outcome],
                   "SimpleVector(const&)")

DoCopyAssign(lim, d, s, ok) ==
    /\ Callable(d) /\ vecs[s].alive
    /\ ok \/ vecs[s].capacity_ > 0
    /\ LET r == CopyAssign(vecs[d], vecs[s], d = s, heap, ok)
       IN  Commit2(lim, d, s, [v |-> r.v, other |-> vecs[s], h |-> r.h, outcome |-> r.outcome],
                   "operator=(const&)")

\* g: what the storage reads as if the call leaves an object pointing to freed storage
DoMoveCtor(lim, d, s, g) ==
    /\ Constructible(d) /\ vecs[s].alive
    /\ LET r == MoveCtor(vecs[s], heap)
       IN  Commit2(lim, d, s, [v |-> r.v, other |-> r.other, h |-> Stale(r.h, g), outcome |-> "ok"],
                   "SimpleVector(&&)")

DoMoveAssign(lim, d, s, g) ==
    /\ Callable(d) /\ vecs[s].alive
    /\ LET r == MoveAssign(vecs[d], vecs[s], d = s, heap)
       IN  Commit2(lim, d, s, [v |-> r.v, other |-> r.other, h |-> Stale(r.h, g), outcome |-> "ok"],
                   "operator=(&&)")

DoSwap(lim, d, s) ==
    /\ Callable(d) /\ vecs[s].alive
    /\ LET r == Swap(vecs[d], vecs[s])
       IN  Commit2(lim, d, s, [v |-> r.v, other |-> r.other, h |-> heap, outcome |-> "ok"], "swap")

DoDtor(lim, o) ==
    /\ Running /\ vecs[o].alive
    /\ Commit(lim, o, Dtor(vecs[o], heap), "~SimpleVector", 0, 0, 0)

DoPushBack(lim, o, item, ok) ==
    /\ Callable(o)
    /\ vecs[o].size_ < lim.size
    /\ (vecs[o].capacity_ <= vecs[o].size_
            => NewCapacity(vecs[o].capacity_, vecs[o].size_ + 1) <= lim.cap)
    /\ ok \/ vecs[o].capacity_ <= vecs[o].size_
    /\ Commit(lim, o, PushBack(vecs[o], heap, item, ok), "PushBack", 0, item, 0)

\* within the precondition: the vector is not empty
DoPopBack(lim, o) ==
    /\ Callable(o)
    /\ vecs[o].size_ > 0
    /\ Commit(lim, o, PopBack(vecs[o], heap), "PopBack", 0, 0, 0)

\* within the precondition: pos in [begin(), end()]; rv picks the Type&& overload
DoInsert(lim, o, pos, value, rv, ok) ==
    /\ Callable(o)
    /\ pos \in 0..vecs[o].size_
    /\ vecs[o].size_ < lim.size
    /\ (vecs[o].capacity_ <= vecs[o].size_
            => NewCapacity(vecs[o].capacity_, vecs[o].size_ + 1) <= lim.cap)
    /\ ok \/ vecs[o].capacity_ <= vecs[o].size_
    /\ Commit(lim, o, IF rv THEN InsertRv(vecs[o], heap, pos, value, ok)
                 ELSE Insert(vecs[o], heap, pos, value, ok),
              IF rv THEN "Insert(&&)" ELSE "Insert", pos, value, 0)

\* within the precondition: pos in [begin(), end())
DoErase(lim, o, pos) ==
    /\ Callable(o)
    /\ pos \in 0..(vecs[o].size_ - 1)
    /\ Commit(lim, o, Erase(vecs[o], heap, pos), "Erase", pos, 0, 0)

DoResize(lim, o, new_size, ok) ==
    /\ Callable(o)
    /\ (new_size > vecs[o].capacity_ => NewCapacity(vecs[o].capacity_, new_size) <= lim.cap)
    /\ ok \/ new_size > vecs[o].capacity_
    /\ Commit(lim, o, Resize(vecs[o], heap, new_size, ok), "Resize", 0, 0, new_size)

DoReserve(lim, o, new_capacity, ok) ==
    /\ Callable(o)
    /\ ok \/ new_capacity > vecs[o].capacity_
    /\ Commit(lim, o, Reserve(vecs[o], heap, new_capacity, ok), "Reserve", 0, 0, new_capacity)

DoClear(lim, o) ==
    /\ Callable(o)
    /\ Commit(lim, o, Clear(vecs[o], heap), "Clear", 0, 0, 0)

\* outside the precondition: PopBack on an empty vector
DoPopBackEmpty(lim, o) ==
    /\ Callable(o)
    /\ vecs[o].size_ = 0
    /\ Commit(lim, o, PopBack(vecs[o], heap), "PopBack", 0, 0, 0)

\* outside the precondition: pos is begin() - 1 or end() + 1
DoInsertOutside(lim, o, pos, value, rv) ==
    /\ Callable(o)
    /\ pos \in {-1, vecs[o].size_ + 1}
    /\ Commit(lim, o, IF rv THEN InsertRv(vecs[o], heap, pos, value, TRUE)
                 ELSE Insert(vecs[o], heap, pos, value, TRUE),
              IF rv THEN "Insert(&&)" ELSE "Insert", pos, value, 0)

\* outside the precondition: pos is begin() - 1, end() or end() + 1
DoEraseOutside(lim, o, pos) ==
    /\ Callable(o)
    /\ pos \in {-1, vecs[o].size_, vecs[o].size_ + 1}
    /\ Commit(lim, o, Erase(vecs[o], heap, pos), "Erase", pos, 0, 0)

---------------------------------------------------------------------------
(* The client of ArrayPtr<Type> alone: two ArrayPtr objects, no SimpleVector. *)

NoPtr == [alive |-> FALSE, raw_ptr_ |-> NullPtr]

\* storage given back to the allocator and referenced by no ArrayPtr is forgotten
SettlePtrs(h, ps) ==
    [h EXCEPT !.mem = [p \in Addr |->
        IF h.mem[p].st = "freed" /\ \A o \in Objs : ps[o].raw_ptr_ # p
        THEN FreeBlock ELSE h.mem[p]]]

\* a call on ArrayPtr object obj (with argument object src) that leaves the objects np
\* and the heap h
ApCommit(np, h, op, obj, src) ==
    /\ ptrs' = np
    /\ heap' = SettlePtrs(h, np)
    /\ last' = Call(op, obj, src, 0, 0, 0, 0, 0, "ok")
    /\ UNCHANGED <<variant, vecs, scn, pushed>>

\* ArrayPtr() = default
ApCtor(o) ==
    /\ ~ptrs[o].alive
    /\ ApCommit([ptrs EXCEPT ![o] = [alive |-> TRUE, raw_ptr_ |-> NullPtr]], heap,
                "ArrayPtr()", o, "-")

\* explicit ArrayPtr(size_t size)
ApCtorSize(o, size) ==
    /\ ~ptrs[o].alive /\ CanAlloc(heap)
    /\ LET r == ArrayPtrNew(heap, size)
       IN  ApCommit([ptrs EXCEPT ![o] = [alive |-> TRUE, raw_ptr_ |-> r.raw_ptr_]], r.h,
                    "ArrayPtr(size)", o, "-")

\* ArrayPtr d(std::move(s))
ApMoveCtor(d, s) ==
    /\ ~ptrs[d].alive /\ ptrs[s].alive
    /\ LET r == ArrayPtrMoveCtor(ptrs[s].raw_ptr_)
       IN  ApCommit([ptrs EXCEPT ![d] = [alive |-> TRUE, raw_ptr_ |-> r.this],
                                 ![s].raw_ptr_ = r.other], heap,
                    "ArrayPtr(&&)", d, s)

\* d = std::move(s); d and s may be the same object
ApMoveAssign(d, s) ==
    /\ ptrs[d].alive /\ ptrs[s].alive
    /\ LET r == ArrayPtrMoveAssign(ptrs[d].raw_ptr_, ptrs[s].raw_ptr_)
       IN  ApCommit(IF d = s THEN [ptrs EXCEPT ![d].raw_ptr_ = r.this]
                    ELSE [ptrs EXCEPT ![d].raw_ptr_ = r.this, ![s].raw_ptr_ = r.other], heap,
                    "ArrayPtr::operator=(&&)", d, s)

\* d.swap(s)
ApSwap(d, s) ==
    /\ ptrs[d].alive /\ ptrs[s].alive /\ d # s
    /\ LET r == ArrayPtrSwap(ptrs[d].raw_ptr_, ptrs[s].raw_ptr_)
       IN  ApCommit([ptrs EXCEPT ![d].raw_ptr_ = r.this, ![s].raw_ptr_ = r.other], heap,
                    "ArrayPtr::swap", d, s)

\* o[index] = value, index inside the array
ApPut(o, index, value) ==
    /\ ptrs[o].alive /\ ptrs[o].raw_ptr_ # NullPtr
    /\ index \in DOMAIN heap.mem[ptrs[o].raw_ptr_].cells
    /\ ApCommit(ptrs, Put(heap, ptrs[o].raw_ptr_, index, value), "ArrayPtr::operator[]", o, "-")

\* ~ArrayPtr()
ApDtor(o) ==
    /\ ptrs[o].alive
    /\ ApCommit([ptrs EXCEPT ![o] = NoPtr], ArrayPtrDelete(heap, ptrs[o].raw_ptr_),
                "~ArrayPtr", o, "-")

---------------------------------------------------------------------------
(* Specifications *)

Init ==
    /\ variant \in {"part_000", "part_001"}
    /\ vecs = [o \in Objs |-> NoVec]
    /\ heap = EmptyHeap
    /\ last = NoCall
    /\ scn = -1
    /\ pushed = NoPushes
    /\ ptrs = [o \in Objs |-> NoPtr]

Lists(vals, maxLen) == UNION {[1..k -> vals] : k \in 0..maxLen}

Pair == Profile(MaxCap, MaxCap, FALSE)
One == Profile(OneMaxCap, OneMaxSize, TRUE)
Scn == Profile(ScnMaxCap, ScnMaxSize, TRUE)
Mis == Profile(MaxCap, MaxCap, TRUE)
Cpy == Profile(MaxCap, MaxCap, TRUE)

\* two objects, every operation, within the preconditions; every new[] succeeds
Next ==
    \/ \E o \in Objs : DoCtor(Pair, o)
    \/ \E o \in Objs, size \in 0..MaxCap : DoCtorSize(Pair, o, size, TRUE)
    \/ \E o \in Objs, size \in 0..MaxCap, value \in Values : DoCtorFill(Pair, o, size, value, TRUE)
    \/ \E o \in Objs, init \in Lists(Values, MaxCap) : DoCtorList(Pair, o, init, TRUE)
    \/ \E o \in Objs, c \in 0..MaxCap : DoCtorReserve(Pair, o, c, TRUE)
    \/ \E d \in Objs, s \in Objs : DoCopyCtor(Pair, d, s, TRUE)
    \/ \E d \in Objs, s \in Objs : DoCopyAssign(Pair, d, s, TRUE)
    \/ \E d \in Objs, s \in Objs, g \in [0..(MaxCap - 1) -> Values] : DoMoveCtor(Pair, d, s, g)
    \/ \E d \in Objs, s \in Objs, g \in [0..(MaxCap - 1) -> Values] : DoMoveAssign(Pair, d, s, g)
    \/ \E d \in Objs, s \in Objs : DoSwap(Pair, d, s)
    \/ \E o \in Objs : DoDtor(Pair, o)
    \/ \E o \in Objs, item \in Values : DoPushBack(Pair, o, item, TRUE)
    \/ \E o \in Objs : DoPopBack(Pair, o)
    \/ \E o \in Objs, pos \in 0..MaxCap, value \in Values, rv \in BOOLEAN :
            DoInsert(Pair, o, pos, value, rv, TRUE)
    \/ \E o \in Objs, pos \in 0..MaxCap : DoErase(Pair, o, pos)
    \/ \E o \in Objs, n \in 0..MaxCap : DoResize(Pair, o, n, TRUE)
    \/ \E o \in Objs, c \in 0..MaxCap : DoReserve(Pair, o, c, TRUE)
    \/ \E o \in Objs : DoClear(Pair, o)

Spec == Init /\ [][Next]_vars

\* one object, deeper: the calls that change one vector; every new[] succeeds
NextOne ==
    \/ DoCtor(One, "a")
    \/ DoDtor(One, "a")
    \/ \E item \in Values : DoPushBack(One, "a", item, TRUE)
    \/ DoPopBack(One, "a")
    \/ \E pos \in 0..OneMaxSize, value \in Values, rv \in BOOLEAN :
            DoInsert(One, "a", pos, value, rv, TRUE)
    \/ \E pos \in 0..OneMaxSize : DoErase(One, "a", pos)
    \/ \E n \in 0..OneMaxSize : DoResize(One, "a", n, TRUE)
    \/ \E c \in 0..OneMaxCap : DoReserve(One, "a", c, TRUE)
    \/ DoClear(One, "a")

SpecOne == Init /\ [][NextOne]_vars

\* one object, the calls of the scenario of spec section 8 and the calls that leave old
\* values beyond size; the client pushes 1, 2, 3, ... : the value pushed is the new size
NextScenario ==
    \/ DoCtor(Scn, "a")
    \/ DoPushBack(Scn, "a", vecs["a"].size_ + 1, TRUE)
    \/ DoPopBack(Scn, "a")
    \/ DoErase(Scn, "a", vecs["a"].size_ - 1)
    \/ \E n \in 0..ScnMaxSize : DoResize(Scn, "a", n, TRUE)
    \/ DoClear(Scn, "a")

SpecScenario == Init /\ [][NextScenario]_vars

\* two objects, the calls that allocate; a new[] may throw std::bad_alloc
NextAlloc ==
    \/ \E o \in Objs : DoCtor(Pair, o)
    \/ \E o \in Objs, item \in Values, ok \in BOOLEAN : DoPushBack(Pair, o, item, ok)
    \/ \E o \in Objs : DoPopBack(Pair, o)
    \/ \E o \in Objs, pos \in 0..MaxCap, value \in Values, rv \in BOOLEAN, ok \in BOOLEAN :
            DoInsert(Pair, o, pos, value, rv, ok)
    \/ \E o \in Objs, n \in 0..MaxCap, ok \in BOOLEAN : DoResize(Pair, o, n, ok)
    \/ \E o \in Objs, c \in 0..MaxCap, ok \in BOOLEAN : DoReserve(Pair, o, c, ok)
    \/ \E d \in Objs, s \in Objs, ok \in BOOLEAN : DoCopyAssign(Pair, d, s, ok)

SpecAlloc == Init /\ [][NextAlloc]_vars

\* one object, with calls outside the preconditions, assertions enabled
NextMisuse ==
    \/ DoCtor(Mis, "a")
    \/ \E init \in Lists(Values, MaxCap) : DoCtorList(Mis, "a", init, TRUE)
    \/ \E item \in Values : DoPushBack(Mis, "a", item, TRUE)
    \/ DoPopBack(Mis, "a")
    \/ \E pos \in 0..MaxCap : DoErase(Mis, "a", pos)
    \/ DoClear(Mis, "a")
    \/ DoPopBackEmpty(Mis, "a")
    \/ \E pos \in -1..(MaxCap + 1), value \in Values, rv \in BOOLEAN :
            DoInsertOutside(Mis, "a", pos, value, rv)
    \/ \E pos \in -1..(MaxCap + 1) : DoEraseOutside(Mis, "a", pos)

SpecMisuse == Init /\ [][NextMisuse]_vars

\* two objects, the calls that build vectors of every size and capacity, and the copies;
\* the client keeps what it called
NextCopy ==
    \/ \E o \in Objs : DoCtor(Cpy, o)
    \/ \E o \in Objs, init \in Lists(Values, MaxCap) : DoCtorList(Cpy, o, init, TRUE)
    \/ \E o \in Objs, c \in 0..MaxCap : DoReserve(Cpy, o, c, TRUE)
    \/ \E o \in Objs : DoPopBack(Cpy, o)
    \/ \E o \in Objs : DoDtor(Cpy, o)
    \/ \E d \in Objs, s \in Objs : DoCopyCtor(Cpy, d, s, TRUE)
    \/ \E d \in Objs, s \in Objs : DoCopyAssign(Cpy, d, s, TRUE)

SpecCopy == Init /\ [][NextCopy]_vars

\* two ArrayPtr objects on their own: construction, move, swap, element writes,
\* destruction
NextArrayPtr ==
    \/ \E o \in Objs : ApCtor(o)
    \/ \E o \in Objs, size \in 0..MaxCap : ApCtorSize(o, size)
    \/ \E d \in Objs, s \in Objs : ApMoveCtor(d, s)
    \/ \E d \in Objs, s \in Objs : ApMoveAssign(d, s)
    \/ \E d \in Objs, s \in Objs : ApSwap(d, s)
    \/ \E o \in Objs, index \in 0..(MaxCap - 1), value \in Values : ApPut(o, index, value)
    \/ \E o \in Objs : ApDtor(o)

SpecArrayPtr == Init /\ [][NextArrayPtr]_vars

TypeOK ==
    /\ variant \in {"part_000", "part_001"}
    /\ \A o \in Objs : vecs[o].items_ \in Addr \cup {NullPtr}
    /\ heap.doubleFree \in BOOLEAN

---------------------------------------------------------------------------
(* Claims *)

\* the blocks that are allocated and not given back
LiveBlocks == {p \in Addr : heap.mem[p].st = "live"}

\* object o holds block p
Holds(o, p) == vecs[o].alive /\ vecs[o].items_ = p

\* C1: after any sequence of SimpleVector operations every allocation is owned by at
\* most one ArrayPtr, no allocation is freed twice or freed while a vector holds it, no
\* allocation is left without an owner, and each live vector's items_ is either null
\* with capacity 0 or a live allocation of exactly capacity_ elements.
C1_Ownership ==
    /\ ~heap.doubleFree
    /\ \A p \in Addr : \A o1 \in Objs, o2 \in Objs : Holds(o1, p) /\ Holds(o2, p) => o1 = o2
    /\ \A p \in LiveBlocks : \E o \in Objs : Holds(o, p)
    /\ \A o \in Objs : vecs[o].alive =>
           \/ vecs[o].items_ = NullPtr /\ vecs[o].capacity_ = 0
           \/ /\ vecs[o].items_ # NullPtr
              /\ heap.mem[vecs[o].items_].st = "live"
              /\ DOMAIN heap.mem[vecs[o].items_].cells = 0..(vecs[o].capacity_ - 1)

\* C2: in every state reached by operations called within their preconditions,
\* size <= capacity holds for every vector.
C2_SizeWithinCapacity ==
    \A o \in Objs : vecs[o].alive => vecs[o].size_ <= vecs[o].capacity_

\* C2's case: one vector filled to its capacity next to one with room left, both non-empty
C2_Witness ==
    /\ vecs["a"].alive /\ vecs["a"].size_ = 2 /\ vecs["a"].capacity_ = 2
    /\ vecs["b"].alive /\ vecs["b"].size_ = 1 /\ vecs["b"].capacity_ = 2

\* the elements of "a" before and after the step
ElemsA == Elems(vecs["a"], heap)
ElemsAfterA == Elems(vecs'["a"], heap')

\* the step is a call of op that returned
Returned(op) == last'.op = op /\ last'.outcome = "ok"

\* C3: after N PushBack calls on an empty vector (size 0, capacity 0) the size is N and
\* the elements are the pushed values in push order; each PushBack leaves the capacity
\* unchanged when size < capacity before the call and otherwise sets it to
\* max(size + 1, capacity == 0 ? 1 : capacity * 2), so the capacity never decreases.
C3_PushBackSequence ==
    /\ [](pushed.on =>
            /\ vecs["a"].size_ = Len(pushed.items)
            /\ ElemsA = pushed.items)
    /\ [][Returned("PushBack") =>
            /\ vecs'["a"].size_ = vecs["a"].size_ + 1
            /\ ElemsAfterA = Append(ElemsA, last'.value)
            /\ vecs'["a"].capacity_ =
                   IF vecs["a"].size_ < vecs["a"].capacity_ THEN vecs["a"].capacity_
                   ELSE Max(vecs["a"].size_ + 1,
                            IF vecs["a"].capacity_ = 0 THEN 1 ELSE vecs["a"].capacity_ * 2)
            /\ vecs'["a"].capacity_ >= vecs["a"].capacity_]_vars

\* C3's case: three pushes on an empty vector, the last one into a full buffer of 2
C3_Witness ==
    /\ pushed.on /\ Len(pushed.items) = 3 /\ pushed.items[1] # pushed.items[3]
    /\ last.op = "PushBack" /\ last.cap = 2
    /\ vecs["a"].capacity_ = 4

\* the reference sequence: s with v inserted before index i
RefInsert(s, i, v) == SubSeq(s, 1, i) \o <<v>> \o SubSeq(s, i + 1, Len(s))

\* the reference sequence: s with the element at index i removed
RefErase(s, i) == SubSeq(s, 1, i) \o SubSeq(s, i + 2, Len(s))

\* C4: for every contents s and every index i in 0..size, full buffer or not,
\* Insert(begin + i, v) (either overload) leaves s[0..i) ++ <v> ++ s[i..size), raises the
\* size by exactly 1 and returns the iterator to index i of the buffer after the call.
C4_InsertMatchesReference ==
    [][Returned("Insert") \/ Returned("Insert(&&)") =>
            /\ ElemsAfterA = RefInsert(ElemsA, last'.pos, last'.value)
            /\ vecs'["a"].size_ = vecs["a"].size_ + 1
            /\ last'.ret = last'.pos]_vars

\* C4's case: an Insert in the middle of a full buffer of 2, which reallocates
C4_Witness ==
    /\ last.op \in {"Insert", "Insert(&&)"} /\ last.outcome = "ok"
    /\ last.pos = 1 /\ last.cap = 2 /\ last.ret = 1
    /\ vecs["a"].size_ = 3 /\ vecs["a"].capacity_ = 4
    /\ ElemsA[1] # ElemsA[2] /\ ElemsA[2] # ElemsA[3]

\* C5: for every non-empty contents s and every index i < size, Erase(begin + i) leaves
\* s[0..i) ++ s[i+1..size), lowers the size by exactly 1, leaves the capacity unchanged
\* and returns the iterator to index i (end() when i was the last index).
C5_EraseMatchesReference ==
    [][Returned("Erase") =>
            /\ ElemsAfterA = RefErase(ElemsA, last'.pos)
            /\ vecs'["a"].size_ = vecs["a"].size_ - 1
            /\ vecs'["a"].capacity_ = vecs["a"].capacity_
            /\ last'.ret = last'.pos]_vars

\* C5's case: the first of three elements erased, the two behind it moved down
C5_Witness ==
    /\ last.op = "Erase" /\ last.outcome = "ok" /\ last.pos = 0 /\ last.ret = 0
    /\ vecs["a"].size_ = 2 /\ vecs["a"].capacity_ >= 3
    /\ ElemsA[1] # ElemsA[2]

\* the elements of object o before and after the step
ElemsOf(o) == Elems(vecs[o], heap)
ElemsAfter(o) == Elems(vecs'[o], heap')

\* size, capacity and elements of object o are what they were before the step
Untouched(o) ==
    /\ vecs'[o].alive = vecs[o].alive
    /\ vecs'[o].size_ = vecs[o].size_
    /\ vecs'[o].capacity_ = vecs[o].capacity_
    /\ ElemsAfter(o) = ElemsOf(o)

\* C6: after copy-constructing D from S, or copy-assigning S to a distinct D whatever D
\* held, D's size, elements and capacity equal S's and S is unchanged; copy-assigning a
\* vector to itself changes nothing.
C6_CopyEqualsSource ==
    [][Returned("SimpleVector(const&)") \/ Returned("operator=(const&)") =>
            /\ vecs'[last'.obj].alive
            /\ vecs'[last'.obj].size_ = vecs[last'.src].size_
            /\ ElemsAfter(last'.obj) = ElemsOf(last'.src)
            /\ vecs'[last'.obj].capacity_ = vecs[last'.src].capacity_
            /\ Untouched(last'.src)
            /\ last'.obj = last'.src => heap' = heap]_vars

\* the elements of vector v are read from no storage or from a live allocation
Readable(v, h) ==
    IF v.items_ = NullPtr THEN v.size_ = 0 ELSE h.mem[v.items_].st = "live"

\* C7: after move-constructing D from S, or move-assigning S to a distinct D, D has S's
\* former size, capacity and elements, readable from a live buffer, S is a valid empty
\* vector (size 0, capacity 0), and a following PushBack(x) on S gives S == <x> with
\* size 1 and leaves D's contents unchanged; move-assigning a vector to itself changes
\* nothing.
C7_MoveTransfers ==
    [][\A d \in Objs, s \in Objs, g \in [0..(MaxCap - 1) -> Values] :
            DoMoveCtor(Pair, d, s, g) \/ DoMoveAssign(Pair, d, s, g) =>
                IF d = s THEN Untouched(d) /\ Readable(vecs'[d], heap')
                ELSE /\ vecs'[d].alive
                     /\ vecs'[d].size_ = vecs[s].size_
                     /\ vecs'[d].capacity_ = vecs[s].capacity_
                     /\ Readable(vecs'[d], heap')
                     /\ ElemsAfter(d) = ElemsOf(s)
                     /\ vecs'[s].alive /\ vecs'[s].size_ = 0 /\ vecs'[s].capacity_ = 0
                     /\ Readable(vecs'[s], heap')
                     /\ \A x \in Values :
                            LET r == PushBack(vecs'[s], heap', x, TRUE)
                            IN  /\ r.outcome = "ok"
                                /\ r.v.size_ = 1
                                /\ Elems(r.v, r.h) = <<x>>
                                /\ Readable(vecs'[d], r.h)
                                /\ Elems(vecs'[d], r.h) = ElemsOf(s)]_vars

\* C8: from every vector state, also one where PopBack, Erase, Clear or a shrinking
\* Resize left old values beyond size, Resize(n) gives size n, leaves the elements
\* [0, min(old size, n)) unchanged, makes every element in [old size, n) the default
\* value, keeps the capacity when n <= capacity and makes it
\* max(n, capacity == 0 ? 1 : capacity * 2) when n > capacity.  In particular empty,
\* PushBack(1), PushBack(2), PushBack(3), Resize(2), Resize(5) gives the capacities
\* 1, 2, 4, 4 and then >= 5 with the contents {1, 2, default, default, default}.
C8_ResizeSemantics ==
    /\ [][Returned("Resize") =>
            /\ vecs'["a"].size_ = last'.n
            /\ \A i \in 1..last'.n :
                   ElemsAfterA[i] = IF i <= vecs["a"].size_ THEN ElemsA[i] ELSE Default
            /\ vecs'["a"].capacity_ =
                   IF last'.n <= vecs["a"].capacity_ THEN vecs["a"].capacity_
                   ELSE Max(last'.n, IF vecs["a"].capacity_ = 0 THEN 1
                                      ELSE vecs["a"].capacity_ * 2)]_vars
    /\ [](/\ scn = 0 => vecs["a"].size_ = 0 /\ vecs["a"].capacity_ = 0
          /\ scn = 1 => vecs["a"].capacity_ = 1 /\ ElemsA = <<1>>
          /\ scn = 2 => vecs["a"].capacity_ = 2 /\ ElemsA = <<1, 2>>
          /\ scn = 3 => vecs["a"].capacity_ = 4 /\ ElemsA = <<1, 2, 3>>
          /\ scn = 4 => vecs["a"].capacity_ = 4 /\ ElemsA = <<1, 2>>
          /\ scn = 5 => vecs["a"].capacity_ >= 5
                        /\ ElemsA = <<1, 2, Default, Default, Default>>)

\* C8's case: the scenario ran to its end, the last Resize out of a buffer of 4 that
\* still held the 3 beyond size
C8_Witness ==
    /\ scn = 5
    /\ last.op = "Resize" /\ last.n = 5 /\ last.cap = 4
    /\ vecs["a"].size_ = 5

\* the call with result r on vector v threw std::bad_alloc and left v and the heap alone
ThrowsClean(r, v) == r.outcome = "bad_alloc" /\ r.v = v /\ r.h = heap

\* C9: when the allocation inside PushBack, Insert, Resize, Reserve or copy assignment
\* fails, the failure reaches the caller and size, capacity and elements of the vector
\* are what they were before the call.  First conjunct: in every reachable state each
\* of the calls that would allocate, made with a failing new[]; second: every step in
\* which a call ended in std::bad_alloc.
C9_AllocFailureLeavesState ==
    /\ [](\A o \in Objs : vecs[o].alive =>
            LET v == vecs[o]
            IN  /\ v.capacity_ <= v.size_ =>
                      /\ \A item \in Values : ThrowsClean(PushBack(v, heap, item, FALSE), v)
                      /\ \A pos \in 0..v.size_, value \in Values :
                             /\ ThrowsClean(Insert(v, heap, pos, value, FALSE), v)
                             /\ ThrowsClean(InsertRv(v, heap, pos, value, FALSE), v)
                /\ \A n \in 0..(MaxCap + 1) :
                       n > v.capacity_ =>
                             /\ ThrowsClean(Resize(v, heap, n, FALSE), v)
                             /\ ThrowsClean(Reserve(v, heap, n, FALSE), v)
                /\ \A s \in Objs :
                       /\ s # o /\ vecs[s].alive /\ vecs[s].capacity_ > 0
                       /\ variant = "part_000" => ~VecEqual(v, vecs[s], heap)
                       => ThrowsClean(CopyAssign(v, vecs[s], FALSE, heap, FALSE), v))
    /\ [][last'.outcome = "bad_alloc" =>
            /\ last'.op \in {"PushBack", "Insert", "Insert(&&)", "Resize", "Reserve",
                             "operator=(const&)"}
            /\ \A x \in Objs : Untouched(x)]_vars

\* C9's case: an Insert into a full, non-empty buffer failed to allocate
C9_Witness ==
    /\ last.outcome = "bad_alloc" /\ last.op \in {"Insert", "Insert(&&)"}
    /\ last.obj = "a"
    /\ vecs["a"].size_ = 1 /\ vecs["a"].capacity_ = 1
    /\ vecs["b"].alive /\ vecs["b"].size_ > 0

\* C10: with assertions enabled every call outside a precondition - PopBack on an empty
\* vector, Insert (both overloads) with a position outside [begin, end], Erase with a
\* position outside [begin, end), Erase(end()) and an empty vector included - ends
\* in a fatal assertion before any change of size, capacity or elements.
C10_ViolationsAbort ==
    [][\A pos \in -1..(MaxCap + 1), value \in Values, rv \in BOOLEAN :
            \/ DoPopBackEmpty(Mis, "a")
            \/ DoInsertOutside(Mis, "a", pos, value, rv)
            \/ DoEraseOutside(Mis, "a", pos)
            => last'.outcome = "abort" /\ Untouched("a")]_vars

\* ArrayPtr object o owns block p: it points to it and the block is allocated
Owns(ps, h, o, p) == ps[o].alive /\ ps[o].raw_ptr_ = p /\ (p # NullPtr => h.mem[p].st = "live")

\* C11: for two distinct ArrayPtr objects a and b, whatever b held, after b = std::move(a)
\* b owns the allocation a owned and a is empty; after move construction from a the
\* source a is empty and the new object owns what a owned; move-assigning an ArrayPtr
\* to itself leaves it unchanged.
C11_MoveEmptiesSource ==
    [][/\ Returned("ArrayPtr::operator=(&&)") =>
              IF last'.obj = last'.src
              THEN ptrs' = ptrs /\ heap' = heap
              ELSE /\ Owns(ptrs', heap', last'.obj, ptrs[last'.src].raw_ptr_)
                   /\ Owns(ptrs', heap', last'.src, NullPtr)
       /\ Returned("ArrayPtr(&&)") =>
              /\ Owns(ptrs', heap', last'.obj, ptrs[last'.src].raw_ptr_)
              /\ Owns(ptrs', heap', last'.src, NullPtr)]_vars

====
